---- MODULE Spec2Model ----
(***************************************************************************)
(* Model of the frame-encoding scripts bruh.py, video.py, screen.py and    *)
(* tetris.py: the 2x2 block quantizer (pick_best_mask), the row run-length *)
(* encoder (compress_row_rgb), the batching loops that hand cells to       *)
(* send_cells, and the send_frame / clear_screen transport of screen.py.   *)
(*                                                                         *)
(* Each program part has its own specification over the shared variables;  *)
(* the variables of the parts that are not running stay at their idle      *)
(* values ("off", empty).                                                  *)
(***************************************************************************)
EXTENDS Integers, Sequences, FiniteSets, TLC

VARIABLES
    qpc,            \* quantizer: "off" | "input" | "done"
    quads,          \* the four colours [tl, tr, bl, br] given to pick_best_mask
    picked,         \* pick_best_mask's return value <<best_mask, best_fg, best_bg>>
    cell,           \* the cell dict build_cells_from_frame appends for the quad
    rpc,            \* row encoder: "off" | "input" | "done"
    row,            \* the row given to compress_row_rgb
    runs,           \* compress_row_rgb's return value
    bpc,            \* main loop: "off" | "read" | "updated" | "loop" | "exit" | "error"
    BATCH_SIZE,     \* the configured maximum batch size
    frame_no,       \* number of frames read (or captured) so far
    cells,          \* the cell list of the frame being sent
    produced,       \* every cell build_cells_from_frame has returned so far, in order
    ci,             \* number of cells of `cells` the for loop has consumed
    batch,          \* the list `batch`
    spc,            \* screen.py main: "off" | "clear" | "frame"
    grab_no,        \* screen.py: number of screen grabs encoded so far
    has_ws_connect, \* screen.py: whether `ws_connect is not None`
    ws,             \* screen.py global _ws: 0 for None, else the handle's number
    opened,         \* number of connections ws_connect has returned
    closed,         \* handles on which close() was called
    ws_log,         \* screen.py: what send_frame and clear_screen did, in order
    handed,         \* the calls of send_cells / send_frame / clear_screen, in order
    wire,           \* the send attempts made on the transports, in order
    gpc,            \* build_cells_from_frame alone: "off" | "input" | "done"
    width,          \* the grid width get_grid_size returned
    height,         \* the grid height get_grid_size returned
    frame_rgb,      \* the resized frame: rows of pixels, frame_rgb[r + 1][c + 1]
    built,          \* build_cells_from_frame's return value
    capture_requested, \* bruh.py main: the flag on_capture sets
    captured_frame, \* bruh.py main: None, or <<k>> for a copy of the k-th frame
    clicks,         \* presses of the Capture button Tk has not dispatched yet
    presses,        \* presses of the Capture button so far
    misses,         \* cap.read() calls that returned ret = False so far
    stop_event,     \* bruh.py main: stop_event.is_set()
    apc,            \* average_color alone: "off" | "input" | "done"
    avg_colors,     \* the collection given to average_color
    avg,            \* average_color's return value
    tpc,            \* tetris.py: "off" | "play" | "over" | "quit", or for the
                    \* functions alone "input" | "cleared" | "dropped" | "ghost"
    board,          \* tetris.py: the rows of the playfield, None for an empty cell
    shape,          \* tetris.py: the rows of the active piece, 1 for a filled cell
    color,          \* tetris.py: the colour of the active piece
    ox,             \* tetris.py: column of the piece's left edge
    oy,             \* tetris.py: row of the piece's top edge
    score,          \* tetris.py main: score
    level,          \* tetris.py main: level
    locks,          \* pieces locked so far
    ghost_y,        \* draw_frame: ghost_y after the ghost loop
    cleared,        \* the count clear_lines returned last
    steps           \* iterations of the downward search loop run so far

vars == <<qpc, quads, picked, cell, rpc, row, runs, bpc, BATCH_SIZE, frame_no,
          cells, produced, ci, batch, spc, grab_no, has_ws_connect, ws, opened,
          closed, ws_log, handed, wire, gpc, width, height, frame_rgb, built,
          capture_requested, captured_frame, clicks, presses, misses,
          stop_event, apc, avg_colors, avg, tpc, board, shape, color, ox, oy,
          score, level, locks, ghost_y, cleared, steps>>

quantVars == <<qpc, quads, picked, cell>>
rleVars == <<rpc, row, runs>>
batchVars == <<bpc, BATCH_SIZE, frame_no, cells, produced, ci, batch>>
screenVars == <<spc, grab_no, has_ws_connect, ws, opened, closed, ws_log>>
sendVars == <<handed, wire>>
gridVars == <<gpc, width, height, frame_rgb, built>>
bruhVars == <<capture_requested, captured_frame, clicks, presses, misses,
              stop_event>>
avgVars == <<apc, avg_colors, avg>>
tetrisVars == <<tpc, board, shape, color, ox, oy, score, level, locks,
                ghost_y, cleared, steps>>
moreVars == <<gridVars, bruhVars, avgVars, tetrisVars>>

(***************************************************************************)
(* Bounds of the model.                                                    *)
(***************************************************************************)
NumColours == 5     \* how many colours of Palette the inputs are drawn from
MaxRowLen == 4      \* longest row given to compress_row_rgb
MaxBatchSize == 3   \* BATCH_SIZE ranges over 1..MaxBatchSize
MaxCells == 6       \* most cells in one frame's cell list
MaxFrames == 2      \* frames processed before the source ends
MaxGrabs == 3       \* screen grabs sent by screen.py
MaxFailures == 2    \* send attempts that raise, over a run
MaxGridW == 2       \* widest grid get_grid_size returns
MaxGridH == 2       \* tallest grid get_grid_size returns
MaxGridFrames == 1  \* frames processed when the frame's pixels are modelled
NumAvgColours == 7  \* how many colours of Palette average_color's inputs use
MaxAvgLen == 4      \* largest collection given to average_color
MaxPresses == 2     \* presses of the Capture button, over a run
MaxMisses == 1      \* cap.read() calls that return no frame, over a run
WIDTH == 4          \* tetris.py: columns of the playfield (12 in the source)
HEIGHT == 4         \* tetris.py: rows of the playfield (22 in the source)
NumShapes == 2      \* how many of SHAPES random_piece chooses from
MaxLocks == 2       \* pieces locked in one game
MaxHundreds == 20   \* the score before a lock, in hundreds, when the scoring
                    \* statements are taken alone

\* RGB triples (r, g, b), each channel in 0..255: the pixel values the
\* inputs are drawn from.
Palette ==
    << <<0, 0, 0>>, <<255, 255, 255>>, <<128, 128, 128>>, <<255, 0, 0>>,
       <<0, 0, 255>>, <<10, 20, 30>>, <<0, 1, 0>>, <<254, 255, 255>>,
       <<0, 255, 0>>, <<255, 255, 0>> >>

Colours == {Palette[i] : i \in 1..NumColours}

None == <<>>

(***************************************************************************)
(* Arithmetic of the colour metric.  to_yuv and color_dist2 compute in     *)
(* floating point with decimal coefficients of at most six digits; the     *)
(* model computes the same expressions exactly, scaled by 125000 (so that  *)
(* every coefficient is an integer) and, for the squares, by 125000^2.     *)
(* A squared distance does not fit TLC's 32-bit integers, so it is kept as *)
(* a two-limb number <<hi, lo>> = hi * 2^24 + lo with 0 <= lo < 2^24.      *)
(*                                                                         *)
(* Exact arithmetic and the floating-point arithmetic of the source order  *)
(* two errors differently only when the exact values are equal or within   *)
(* the rounding error of each other.  For every block of four colours of   *)
(* Palette the mask, fg and bg computed here are those the Python          *)
(* functions return.  Outside Palette there are blocks where two masks tie *)
(* exactly and rounding makes the source prefer the later one, e.g.        *)
(* [(233,75,71), (234,76,69), (234,76,69), (235,77,67)]: masks 1 and 7 tie *)
(* exactly, and the source returns 7.                                      *)
(***************************************************************************)
Limb == 2 ^ 24
HalfLimb == 2 ^ 12

Abs(x) == IF x < 0 THEN -x ELSE x

\* x * x for |x| < 2^25, as a two-limb number.
Sq(x) ==
    LET a == Abs(x) \div HalfLimb
        b == Abs(x) % HalfLimb
        t == 2 * a * b
        lo_raw == (t % HalfLimb) * HalfLimb + b * b
    IN  << a * a + (t \div HalfLimb) + (lo_raw \div Limb), lo_raw % Limb >>

BigAdd(p, q) ==
    << p[1] + q[1] + ((p[2] + q[2]) \div Limb), (p[2] + q[2]) % Limb >>

BigLess(p, q) == p[1] < q[1] \/ (p[1] = q[1] /\ p[2] < q[2])

BigZero == <<0, 0>>

\* to_yuv: (y, u, v) of an RGB triple, each times 125000.
to_yuv(c) ==
    LET r == c[1]
        g == c[2]
        b == c[3]
    IN  << 37375 * r + 73375 * g + 14250 * b,
           62500 * b - 21092 * r - 41408 * g,
           62500 * r - 52336 * g - 10164 * b >>

\* color_dist2: dy*dy*2.0 + du*du + dv*dv, times 125000^2.
color_dist2(a, b) ==
    LET ya == to_yuv(a)
        yb == to_yuv(b)
        dy == ya[1] - yb[1]
        du == ya[2] - yb[2]
        dv == ya[3] - yb[3]
    IN  BigAdd(BigAdd(BigAdd(Sq(dy), Sq(dy)), Sq(du)), Sq(dv))

RECURSIVE SumChannel(_, _)
SumChannel(colors, k) ==
    IF colors = <<>> THEN 0
    ELSE Head(colors)[k] + SumChannel(Tail(colors), k)

\* int(s / n) for int(s / n + 0.5), the mean truncated: a mutant.
RoundedMean_Truncated(s, n) == s \div n

\* int(s / n + 1.0) for int(s / n + 0.5): a mutant.
RoundedMean_PlusOne(s, n) == (s \div n) + 1

\* int(s / n + 0.5) for integers s >= 0, n >= 1: the quotient, plus one when
\* the fractional part of s / n is at least one half.
RoundedMean(s, n) == (s \div n) + (IF 2 * (s % n) >= n THEN 1 ELSE 0)

average_color(colors) ==
    IF colors = <<>> THEN <<0, 0, 0>>
    ELSE << RoundedMean(SumChannel(colors, 1), Len(colors)),
            RoundedMean(SumChannel(colors, 2), Len(colors)),
            RoundedMean(SumChannel(colors, 3), Len(colors)) >>

\* BitSet with the quadrant order reversed (bit 0 taken for BR): a mutant.
BitSet_Reversed(mask, i) == (mask \div (2 ^ (3 - i))) % 2 = 1

\* mask & (1 << i), as a truth value
BitSet(mask, i) == (mask \div (2 ^ i)) % 2 = 1

\* quads[i] for the i in 0..3 with bit i of mask set (want = TRUE: fg_set) or
\* clear (want = FALSE: bg_set), in index order.
RECURSIVE GroupFrom(_, _, _, _)
GroupFrom(q, mask, want, i) ==
    IF i > 3 THEN <<>>
    ELSE IF BitSet(mask, i) = want
         THEN <<q[i + 1]>> \o GroupFrom(q, mask, want, i + 1)
         ELSE GroupFrom(q, mask, want, i + 1)

\* best_fg without the `if fg_set else average_color(quads)` fallback: a
\* mutant.
MaskFg_NoFallback(q, mask) == average_color(GroupFrom(q, mask, TRUE, 0))

MaskFg(q, mask) ==
    IF GroupFrom(q, mask, TRUE, 0) # <<>>
    THEN average_color(GroupFrom(q, mask, TRUE, 0))
    ELSE average_color(q)

MaskBg(q, mask) ==
    IF GroupFrom(q, mask, FALSE, 0) # <<>>
    THEN average_color(GroupFrom(q, mask, FALSE, 0))
    ELSE average_color(q)

\* err of one mask: the sum over i = 0..3 of color_dist2(quads[i], target).
RECURSIVE ErrFrom(_, _, _, _, _)
ErrFrom(q, mask, fg, bg, i) ==
    IF i > 3 THEN BigZero
    ELSE BigAdd(color_dist2(q[i + 1], IF BitSet(mask, i) THEN fg ELSE bg),
                ErrFrom(q, mask, fg, bg, i + 1))

MaskErr(q, mask) == ErrFrom(q, mask, MaskFg(q, mask), MaskBg(q, mask), 0)

\* Improves with the comparison turned around (err > best_err): a mutant.
Improves_Greater(err, best_err) == best_err = None \/ BigLess(best_err, err)

\* Improves with `<=` for `<`, so that the last of several minima wins: a mutant.
Improves_OrEqual(err, best_err) == best_err = None \/ ~BigLess(best_err, err)

\* `best_err is None or err < best_err`
Improves(err, best_err) == best_err = None \/ BigLess(err, best_err)

\* One iteration of `for mask in range(16)`.
PickStep(q, best, mask) ==
    IF Improves(MaskErr(q, mask), best.err)
    THEN [mask |-> mask, fg |-> MaskFg(q, mask), bg |-> MaskBg(q, mask),
          err |-> MaskErr(q, mask)]
    ELSE best

RECURSIVE PickLoop(_, _, _)
PickLoop(q, best, mask) ==
    IF mask > 15 THEN best
    ELSE PickLoop(q, PickStep(q, best, mask), mask + 1)

pick_best_mask(q) ==
    LET best == PickLoop(q, [mask |-> 0, fg |-> q[1], bg |-> q[1], err |-> None], 0)
    IN  <<best.mask, best.fg, best.bg>>

\* The table with the glyphs of masks 1 and 2 exchanged: a mutant.
QUAD_CHARS_Swapped ==
    << 32, 9629, 9624, 9600, 9622, 9612, 9630, 9627,
       9623, 9626, 9616, 9628, 9604, 9625, 9631, 9632 >>

\* QUAD_CHARS of video.py, by Unicode code point.
QUAD_CHARS_video ==
    << 32, 9624, 9629, 9600, 9622, 9612, 9630, 9627,
       9623, 9626, 9616, 9628, 9604, 9625, 9631, 9632 >>

\* The glyphs, by Unicode code point: " " is 32, U+2598 is 9624, ...
QUAD_CHARS ==
    << 32, 9624, 9629, 9600, 9622, 9612, 9630, 9627,
       9623, 9626, 9616, 9628, 9604, 9625, 9631, 9632 >>

\* The cell build_cells_from_frame appends for grid position (x, y).
MakeCell(x, y, q) ==
    LET p == pick_best_mask(q)
    IN  [x |-> x, y |-> y, ch |-> QUAD_CHARS[p[1] + 1], fg |-> p[2], bg |-> p[3]]

(***************************************************************************)
(* build_cells_from_frame, from the resized frame on.  frame_rgb has       *)
(* 2 * height rows of 2 * width pixels; the source's frame_rgb[r, c]       *)
(* (0-based) is frame_rgb[r + 1][c + 1] here.                              *)
(***************************************************************************)
\* The block read with rows and columns exchanged (tr and bl swapped): a
\* mutant.
SubPixels_Transposed(f, x, y) ==
    << f[2 * y + 1][2 * x + 1], f[2 * y + 2][2 * x + 1],
       f[2 * y + 1][2 * x + 2], f[2 * y + 2][2 * x + 2] >>

\* [tl, tr, bl, br] of grid position (x, y): y0 = y * 2, x0 = x * 2,
\* tl = frame_rgb[y0, x0], tr = frame_rgb[y0, x0 + 1],
\* bl = frame_rgb[y0 + 1, x0], br = frame_rgb[y0 + 1, x0 + 1].
SubPixels(f, x, y) ==
    << f[2 * y + 1][2 * x + 1], f[2 * y + 1][2 * x + 2],
       f[2 * y + 2][2 * x + 1], f[2 * y + 2][2 * x + 2] >>

\* `for x in range(width)`, from x on, in row y.
RECURSIVE CellsOfRow(_, _, _, _)
CellsOfRow(f, w, y, x) ==
    IF x >= w THEN <<>>
    ELSE <<MakeCell(x, y, SubPixels(f, x, y))>> \o CellsOfRow(f, w, y, x + 1)

\* `for y in range(height)`, from y on.
RECURSIVE CellsFromRow(_, _, _, _)
CellsFromRow(f, w, h, y) ==
    IF y >= h THEN <<>>
    ELSE CellsOfRow(f, w, y, 0) \o CellsFromRow(f, w, h, y + 1)

\* The cell list returned for the resized frame f and the grid w x h.
build_cells_from_frame(f, w, h) == CellsFromRow(f, w, h, 0)

(***************************************************************************)
(* compress_row_rgb (screen.py): run-length encoding of one row.  A pixel  *)
(* is a triple (r, g, b); the glyph of a run is U+25A0, code point 9632.   *)
(***************************************************************************)
\* SamePixel comparing the red channel only: a mutant.
SamePixel_RedOnly(px, prev) == px[1] = prev[1]

\* SamePixel that never finds two pixels equal: a mutant.
SamePixel_Never(px, prev) == FALSE

\* (px == prev).all()
SamePixel(px, prev) == \A k \in 1..3 : px[k] = prev[k]

\* The dict appended for a run of `count` pixels of colour prev.
MakeRun(count, prev) ==
    [count |-> count, ch |-> 9632, fg |-> <<prev[1], prev[2], prev[3]>>,
     bg |-> <<0, 0, 0>>]

\* One iteration of `for px in row[1:]`; st holds runs, prev and count.
RleStep(st, px) ==
    IF SamePixel(px, st.prev)
    THEN [st EXCEPT !.count = st.count + 1]
    ELSE [runs |-> Append(st.runs, MakeRun(st.count, st.prev)), prev |-> px, count |-> 1]

RECURSIVE RleLoop(_, _)
RleLoop(st, rest) ==
    IF rest = <<>> THEN st
    ELSE RleLoop(RleStep(st, Head(rest)), Tail(rest))

\* RleFinish without the append of the last run: a mutant.
RleFinish_NoLast(st) == st.runs

\* The last run appended only when it is longer than one pixel: a mutant.
RleFinish_OnlyIfLong(st) ==
    IF st.count > 1 THEN Append(st.runs, MakeRun(st.count, st.prev)) ELSE st.runs

\* The statements after the loop: the last run is appended and runs returned.
RleFinish(st) == Append(st.runs, MakeRun(st.count, st.prev))

compress_row_rgb(r) ==
    IF Len(r) = 0 THEN <<>>
    ELSE RleFinish(RleLoop([runs |-> <<>>, prev |-> r[1], count |-> 1], Tail(r)))

(***************************************************************************)
(* Idle values of the program parts that a specification does not run.     *)
(***************************************************************************)
QuantOff == qpc = "off" /\ quads = None /\ picked = None /\ cell = None
RleOff == rpc = "off" /\ row = None /\ runs = None
BatchOff ==
    /\ bpc = "off" /\ BATCH_SIZE = 0 /\ frame_no = 0
    /\ cells = <<>> /\ produced = <<>> /\ ci = 0 /\ batch = <<>>
ScreenOff ==
    /\ spc = "off" /\ grab_no = 0 /\ has_ws_connect = FALSE /\ ws = 0
    /\ opened = 0 /\ closed = {} /\ ws_log = <<>>
SendOff == handed = <<>> /\ wire = <<>>
GridOff ==
    /\ gpc = "off" /\ width = 0 /\ height = 0 /\ frame_rgb = None
    /\ built = None
BruhOff ==
    /\ capture_requested = FALSE /\ captured_frame = None /\ clicks = 0
    /\ presses = 0 /\ misses = 0 /\ stop_event = FALSE
AvgOff == apc = "off" /\ avg_colors = None /\ avg = None
TetrisOff ==
    /\ tpc = "off" /\ board = None /\ shape = None /\ color = None
    /\ ox = 0 /\ oy = 0 /\ score = 0 /\ level = 0 /\ locks = 0
    /\ ghost_y = 0 /\ cleared = 0 /\ steps = 0
MoreOff == GridOff /\ BruhOff /\ AvgOff /\ TetrisOff

(***************************************************************************)
(* The quantizer applied to one 2x2 block: build_cells_from_frame's loop   *)
(* body for the grid position (0, 0).                                      *)
(***************************************************************************)
InitQuant ==
    /\ qpc = "input"
    /\ quads \in Colours \X Colours \X Colours \X Colours
    /\ picked = None
    /\ cell = None
    /\ RleOff /\ BatchOff /\ ScreenOff /\ SendOff /\ MoreOff

QuantizeCell ==
    /\ qpc = "input"
    /\ picked' = pick_best_mask(quads)
    /\ cell' = MakeCell(0, 0, quads)
    /\ qpc' = "done"
    /\ UNCHANGED <<moreVars, quads, rleVars, batchVars, screenVars, sendVars>>

NextQuant == QuantizeCell

SpecQuant == InitQuant /\ [][NextQuant]_vars

(***************************************************************************)
(* build_cells_from_frame applied to one resized frame.  The frames are    *)
(* the diagonal patterns whose pixel in row r, column c has the colour     *)
(* number (a * r + b * c + s) mod NumColours of Palette.                   *)
(***************************************************************************)
Pattern(a, b, s, nrows, ncols) ==
    [r \in 1..nrows |->
        [c \in 1..ncols |->
            Palette[1 + ((a * (r - 1) + b * (c - 1) + s) % NumColours)]]]

Frames(w, h) ==
    {Pattern(a, b, s, 2 * h, 2 * w) :
        a \in 0..(NumColours - 1), b \in 0..(NumColours - 1),
        s \in 0..(NumColours - 1)}

InitCells ==
    /\ gpc = "input"
    /\ width \in 1..MaxGridW
    /\ height \in 1..MaxGridH
    /\ frame_rgb \in Frames(width, height)
    /\ built = None
    /\ BruhOff /\ AvgOff /\ TetrisOff
    /\ QuantOff /\ RleOff /\ BatchOff /\ ScreenOff /\ SendOff

BuildCells ==
    /\ gpc = "input"
    /\ built' = build_cells_from_frame(frame_rgb, width, height)
    /\ gpc' = "done"
    /\ UNCHANGED <<width, height, frame_rgb, bruhVars, avgVars, tetrisVars, quantVars,
                   rleVars, batchVars, screenVars, sendVars>>

NextCells == BuildCells

SpecCells == InitCells /\ [][NextCells]_vars

(***************************************************************************)
(* average_color applied to one collection: every collection of at most    *)
(* MaxAvgLen palette colours, and every single colour of a ramp that takes *)
(* each value 0..255 in each channel.                                      *)
(***************************************************************************)
AvgColours == {Palette[i] : i \in 1..NumAvgColours}

Ramp(v) == <<v, (v * 7) % 256, 255 - v>>

AvgInputs ==
    UNION {[1..n -> AvgColours] : n \in 0..MaxAvgLen}
        \cup {<<Ramp(v)>> : v \in 0..255}

InitAvg ==
    /\ apc = "input"
    /\ avg_colors \in AvgInputs
    /\ avg = None
    /\ GridOff /\ BruhOff /\ TetrisOff
    /\ QuantOff /\ RleOff /\ BatchOff /\ ScreenOff /\ SendOff

AverageColor ==
    /\ apc = "input"
    /\ avg' = average_color(avg_colors)
    /\ apc' = "done"
    /\ UNCHANGED <<avg_colors, gridVars, bruhVars, tetrisVars, quantVars, rleVars,
                   batchVars, screenVars, sendVars>>

NextAvg == AverageColor

SpecAvg == InitAvg /\ [][NextAvg]_vars

(***************************************************************************)
(* compress_row_rgb applied to one row.                                    *)
(***************************************************************************)
Rows == UNION {[1..n -> Colours] : n \in 0..MaxRowLen}

InitRle ==
    /\ rpc = "input"
    /\ row \in Rows
    /\ runs = None
    /\ QuantOff /\ BatchOff /\ ScreenOff /\ SendOff /\ MoreOff

CompressRow ==
    /\ rpc = "input"
    /\ runs' = compress_row_rgb(row)
    /\ rpc' = "done"
    /\ UNCHANGED <<moreVars, row, quantVars, batchVars, screenVars, sendVars>>

NextRle == CompressRow

SpecRle == InitRle /\ [][NextRle]_vars

(***************************************************************************)
(* The transports.  A call of send_cells, send_frame or clear_screen is    *)
(* recorded in `handed`; every attempt to put a payload on a transport     *)
(* (an HTTP POST, a WebSocket send) is recorded in `wire` with its outcome *)
(* (ok = FALSE: the attempt raised).                                       *)
(***************************************************************************)
Call(fn, payload) == [call |-> fn, payload |-> payload]

Attempt(fn, payload, via, handle, ok) ==
    [call |-> fn, payload |-> payload, via |-> via, handle |-> handle, ok |-> ok]

\* The outcomes the next send attempt may have (TRUE: sent, FALSE: raised),
\* when `before` attempts of the same call have raised already.
Outcomes(before) ==
    IF Len(SelectSeq(wire, LAMBDA a : ~a.ok)) + before < MaxFailures
    THEN {TRUE, FALSE}
    ELSE {TRUE}

\* send_cells that posts a second time when the first POST raised: a mutant.
SendCells_Retry(b) ==
    /\ handed' = Append(handed, Call("send_cells", b))
    /\ \/ wire' = Append(wire, Attempt("send_cells", b, "http", 0, TRUE))
       \/ /\ FALSE \in Outcomes(0)
          /\ \E ok \in Outcomes(1) :
                 wire' = wire \o << Attempt("send_cells", b, "http", 0, FALSE),
                                    Attempt("send_cells", b, "http", 0, ok) >>

\* send_cells(cells): one requests.post; an exception it raises is swallowed.
SendCells(b) ==
    /\ handed' = Append(handed, Call("send_cells", b))
    /\ \E ok \in Outcomes(0) :
           wire' = Append(wire, Attempt("send_cells", b, "http", 0, ok))

(***************************************************************************)
(* The batching loop of video.py's main (the same statements are in        *)
(* bruh.py's main and in tetris.py's draw_frame).  A cell is written       *)
(* <<k, i>>: the i-th cell of the list built for the k-th frame.           *)
(***************************************************************************)
\* `len(batch) > BATCH_SIZE` for `>=`: a mutant.
FlushDue_Late(b) == Len(b) > BATCH_SIZE

\* `if len(batch) >= BATCH_SIZE`
FlushDue(b) == Len(b) >= BATCH_SIZE

\* The remainder sent whether or not it is empty: a mutant.
TailDue_Always(b) == TRUE

\* `if batch`
TailDue(b) == b # <<>>

\* The list of the previous frame kept instead of a new one: a mutant.
FreshBatch_Stale == batch

\* `batch = []`
FreshBatch == <<>>

InitBatch ==
    /\ bpc = "read"
    /\ BATCH_SIZE \in 1..MaxBatchSize
    /\ frame_no = 0
    /\ cells = <<>>
    /\ produced = <<>>
    /\ ci = 0
    /\ batch = <<>>
    /\ handed = <<>>
    /\ wire = <<>>
    /\ QuantOff /\ RleOff /\ ScreenOff /\ MoreOff

\* cap.read() returns a frame; build_cells_from_frame returns its cells
\* (width * height of them, at least one); batch = [].
ReadFrame ==
    /\ bpc = "read"
    /\ frame_no < MaxFrames
    /\ \E n \in 1..MaxCells :
           /\ cells' = [i \in 1..n |-> <<frame_no + 1, i>>]
           /\ produced' = produced \o [i \in 1..n |-> <<frame_no + 1, i>>]
    /\ frame_no' = frame_no + 1
    /\ batch' = FreshBatch
    /\ ci' = 0
    /\ bpc' = "loop"
    /\ UNCHANGED <<moreVars, BATCH_SIZE, sendVars, quantVars, rleVars, screenVars>>

\* cap.read() returns ret = False: break.
EndOfVideo ==
    /\ bpc = "read"
    /\ bpc' = "exit"
    /\ UNCHANGED <<moreVars, BATCH_SIZE, frame_no, cells, produced, ci, batch, sendVars,
                   quantVars, rleVars, screenVars>>

\* One iteration of `for cell in cells`: append, and send and clear the batch
\* when it has reached BATCH_SIZE.
AppendCell ==
    /\ bpc = "loop"
    /\ ci < Len(cells)
    /\ ci' = ci + 1
    /\ IF FlushDue(Append(batch, cells[ci + 1]))
       THEN /\ SendCells(Append(batch, cells[ci + 1]))
            /\ batch' = <<>>
       ELSE /\ batch' = Append(batch, cells[ci + 1])
            /\ UNCHANGED sendVars
    /\ UNCHANGED <<moreVars, bpc, BATCH_SIZE, frame_no, cells, produced,
                   quantVars, rleVars, screenVars>>

\* After the loop: `if batch: send_cells(batch)`, then the sleep and the next
\* iteration of `while True`.  The list is not cleared after this send.
FinishFrame ==
    /\ bpc = "loop"
    /\ ci = Len(cells)
    /\ IF TailDue(batch) THEN SendCells(batch) ELSE UNCHANGED sendVars
    /\ bpc' = "read"
    /\ UNCHANGED <<moreVars, BATCH_SIZE, frame_no, cells, produced, ci, batch, quantVars,
                   rleVars, screenVars>>

NextBatch == ReadFrame \/ EndOfVideo \/ AppendCell \/ FinishFrame

SpecBatch == InitBatch /\ [][NextBatch]_vars

(***************************************************************************)
(* screen.py: clear_screen, then one send_frame per screen grab.  The      *)
(* payload of the k-th grab's rows is written <<"rows", k>>.               *)
(***************************************************************************)
\* get_ws() returning h: the held handle, or the result of ws_connect when
\* none is held (a new handle, or None = 0 when the connect raised).
GetWs(h) ==
    IF ws # 0
    THEN h = ws /\ opened' = opened
    ELSE \/ h = opened + 1 /\ opened' = opened + 1
         \/ h = 0 /\ opened' = opened

\* An entry of ws_log: "connect" (ws_connect was called and returned handle
\* h, 0 when it raised), "send" and "send_raised" (ws.send on handle h),
\* "close" (close_ws closed h and set _ws to None), "post" (requests.post was
\* called while _ws was h, 0 for None).
Ev(op, h) == [op |-> op, handle |-> h]

\* get_ws() calls ws_connect only when no handle is held.
ConnectLog(h) == IF ws = 0 THEN << Ev("connect", h) >> ELSE <<>>

\* The WebSocket send on handle h succeeds: the function returns.
WsSent(fn, payload) ==
    /\ has_ws_connect
    /\ \E h \in 1..(opened + 1) :
           /\ GetWs(h)
           /\ wire' = Append(wire, Attempt(fn, payload, "ws", h, TRUE))
           /\ ws_log' = ws_log \o ConnectLog(h) \o << Ev("send", h) >>
           /\ ws' = h
           /\ closed' = closed

\* The except branch without close_ws(): the handle stays in _ws: a mutant.
WsFailedThenHttp_KeepHandle(fn, payload) ==
    /\ has_ws_connect
    /\ FALSE \in Outcomes(0)
    /\ \E h \in 1..(opened + 1), ok \in Outcomes(1) :
           /\ GetWs(h)
           /\ wire' = wire \o << Attempt(fn, payload, "ws", h, FALSE),
                                 Attempt(fn, payload, "http", 0, ok) >>
           /\ ws_log' = ws_log \o ConnectLog(h)
                            \o << Ev("send_raised", h), Ev("post", h) >>
           /\ ws' = h
           /\ closed' = closed

\* The WebSocket send raises: close_ws(), then the HTTP POST of the payload.
WsFailedThenHttp(fn, payload) ==
    /\ has_ws_connect
    /\ FALSE \in Outcomes(0)
    /\ \E h \in 1..(opened + 1), ok \in Outcomes(1) :
           /\ GetWs(h)
           /\ wire' = wire \o << Attempt(fn, payload, "ws", h, FALSE),
                                 Attempt(fn, payload, "http", 0, ok) >>
           /\ ws_log' = ws_log \o ConnectLog(h)
                            \o << Ev("send_raised", h), Ev("close", h),
                                  Ev("post", 0) >>
           /\ ws' = 0
           /\ closed' = closed \cup {h}

\* No WebSocket (ws_connect is None, or get_ws() returned None): HTTP POST.
HttpOnly(fn, payload) ==
    /\ \/ /\ ~has_ws_connect
          /\ opened' = opened
          /\ ws_log' = Append(ws_log, Ev("post", ws))
       \/ /\ has_ws_connect
          /\ GetWs(0)
          /\ ws_log' = ws_log \o ConnectLog(0) \o << Ev("post", ws) >>
    /\ \E ok \in Outcomes(0) :
           wire' = Append(wire, Attempt(fn, payload, "http", 0, ok))
    /\ UNCHANGED <<ws, closed>>

\* The body shared by send_frame(rows) and clear_screen().
SendFrame(fn, payload) ==
    /\ handed' = Append(handed, Call(fn, payload))
    /\ \/ WsSent(fn, payload)
       \/ WsFailedThenHttp(fn, payload)
       \/ HttpOnly(fn, payload)

InitScreen ==
    /\ spc = "clear"
    /\ grab_no = 0
    /\ has_ws_connect \in BOOLEAN
    /\ ws = 0
    /\ opened = 0
    /\ closed = {}
    /\ ws_log = <<>>
    /\ handed = <<>>
    /\ wire = <<>>
    /\ QuantOff /\ RleOff /\ BatchOff /\ MoreOff

\* main: clear_screen() (and get_grid_size()).
ClearScreen ==
    /\ spc = "clear"
    /\ SendFrame("clear_screen", <<"clear">>)
    /\ spc' = "frame"
    /\ UNCHANGED <<moreVars, grab_no, has_ws_connect, quantVars, rleVars, batchVars>>

\* One iteration of main's `while True`: grab, resize, encode the rows,
\* send_frame(rows), sleep.
GrabAndSend ==
    /\ spc = "frame"
    /\ grab_no < MaxGrabs
    /\ grab_no' = grab_no + 1
    /\ SendFrame("send_frame", <<"rows", grab_no + 1>>)
    /\ UNCHANGED <<moreVars, spc, has_ws_connect, quantVars, rleVars, batchVars>>

NextScreen == ClearScreen \/ GrabAndSend

SpecScreen == InitScreen /\ [][NextScreen]_vars

\* Either program with its transport: the cell senders and screen.py.
SpecSend == (InitBatch \/ InitScreen) /\ [][NextBatch \/ NextScreen]_vars

(***************************************************************************)
(* video.py's main and screen.py's main with the grid size get_grid_size   *)
(* returned, which is whatever integers the server answered: the frame is  *)
(* resized to the grid before anything is built from it.  The k-th frame   *)
(* of a source is a diagonal pattern (for screen.py, one with rows of one   *)
(* colour or one whose colour changes from pixel to pixel).                *)
(***************************************************************************)
\* The resize treated as succeeding for every size: a mutant.
ResizeRaises_Never(w, h) == FALSE

\* cv2.resize(f, (w, h), ...) raises cv2.error when the requested size is
\* not positive; nothing in the scripts catches it.
ResizeRaises(w, h) == w <= 0 \/ h <= 0

GridWidths == (0 - 1)..MaxGridW
GridHeights == (0 - 1)..MaxGridH

InitVideo ==
    /\ bpc = "read"
    /\ BATCH_SIZE \in 1..MaxBatchSize
    /\ width \in GridWidths
    /\ height \in GridHeights
    /\ frame_no = 0
    /\ cells = <<>>
    /\ produced = <<>>
    /\ ci = 0
    /\ batch = <<>>
    /\ handed = <<>>
    /\ wire = <<>>
    /\ gpc = "off" /\ frame_rgb = None /\ built = None
    /\ BruhOff /\ AvgOff /\ TetrisOff
    /\ QuantOff /\ RleOff /\ ScreenOff

\* cap.read() returns a frame; build_cells_from_frame resizes it to the
\* sub-pixel grid, which raises out of main for a grid that is not positive,
\* and otherwise returns the frame's cells; batch = [].
VideoReadFrame ==
    /\ bpc = "read"
    /\ frame_no < MaxGridFrames
    /\ frame_no' = frame_no + 1
    /\ IF ResizeRaises(width * 2, height * 2)
       THEN /\ bpc' = "error"
            /\ UNCHANGED <<frame_rgb, cells, produced, batch, ci>>
       ELSE /\ \E s \in 0..1 :
                   frame_rgb' = Pattern(1, 2, s, height * 2, width * 2)
            /\ cells' = build_cells_from_frame(frame_rgb', width, height)
            /\ produced' = produced \o cells'
            /\ batch' = FreshBatch
            /\ ci' = 0
            /\ bpc' = "loop"
    /\ UNCHANGED <<BATCH_SIZE, width, height, gpc, built, bruhVars, avgVars, tetrisVars,
                   sendVars, quantVars, rleVars, screenVars>>

NextVideo == VideoReadFrame \/ EndOfVideo \/ AppendCell \/ FinishFrame

InitScreenGrid ==
    /\ spc = "clear"
    /\ grab_no = 0
    /\ has_ws_connect \in BOOLEAN
    /\ ws = 0
    /\ opened = 0
    /\ closed = {}
    /\ ws_log = <<>>
    /\ handed = <<>>
    /\ wire = <<>>
    /\ width \in GridWidths
    /\ height \in GridHeights
    /\ gpc = "off" /\ frame_rgb = None /\ built = None
    /\ BruhOff /\ AvgOff /\ TetrisOff
    /\ QuantOff /\ RleOff /\ BatchOff

\* `rows = []`, `for y in range(height): rows.append({"runs": ...})`
EncodeRows(f, h) == [y \in 1..h |-> [runs |-> compress_row_rgb(f[y])]]

\* One iteration of screen.py's `while True` with its data: grab,
\* linear_resize to the grid (which raises out of main for a grid that is not
\* positive), encode every row, send_frame(rows), sleep.
GrabEncodeSend ==
    /\ spc = "frame"
    /\ grab_no < MaxGridFrames
    /\ grab_no' = grab_no + 1
    /\ IF ResizeRaises(width, height)
       THEN /\ spc' = "error"
            /\ UNCHANGED <<frame_rgb, ws, opened, closed, ws_log, sendVars>>
       ELSE /\ \E b \in 0..1 :
                   frame_rgb' = Pattern(1, b, grab_no, height, width)
            /\ SendFrame("send_frame", EncodeRows(frame_rgb', height))
            /\ spc' = spc
    /\ UNCHANGED <<has_ws_connect, width, height, gpc, built, bruhVars,
                   avgVars, tetrisVars, quantVars, rleVars, batchVars>>

NextScreenGrid == ClearScreen \/ GrabEncodeSend

\* Either program from its first frame on.
SpecFrames ==
    (InitVideo \/ InitScreenGrid) /\ [][NextVideo \/ NextScreenGrid]_vars

(***************************************************************************)
(* bruh.py's main: the preview loop with the Capture button.  Tk runs the  *)
(* button's command (on_capture) and the window's close handler (on_close) *)
(* only inside root.update(), which main calls once per frame it has read; *)
(* a press made at any other time waits in Tk's event queue.  A cell is    *)
(* written <<k, i>>: the i-th cell built from the k-th frame read.         *)
(***************************************************************************)
\* captured_frame left as it is after the send: a mutant.
Released_Kept == captured_frame

\* `captured_frame = None`, after the batches are sent
Released == None

InitBruh ==
    /\ bpc = "read"
    /\ BATCH_SIZE \in 1..MaxBatchSize
    /\ width \in 1..MaxGridW
    /\ height \in 1..MaxGridH
    /\ frame_no = 0
    /\ cells = <<>>
    /\ produced = <<>>
    /\ ci = 0
    /\ batch = <<>>
    /\ handed = <<>>
    /\ wire = <<>>
    /\ capture_requested = FALSE
    /\ captured_frame = None
    /\ clicks = 0
    /\ presses = 0
    /\ misses = 0
    /\ stop_event = FALSE
    /\ gpc = "off" /\ frame_rgb = None /\ built = None
    /\ AvgOff /\ TetrisOff /\ QuantOff /\ RleOff /\ ScreenOff

\* The user presses the Capture button; the press waits for root.update().
PressCapture ==
    /\ bpc \in {"read", "updated", "loop"}
    /\ ~stop_event
    /\ presses < MaxPresses
    /\ presses' = presses + 1
    /\ clicks' = clicks + 1
    /\ UNCHANGED <<capture_requested, captured_frame, misses, stop_event,
                   gridVars, avgVars, tetrisVars, quantVars, rleVars, batchVars,
                   screenVars, sendVars>>

\* `if stop_event.is_set(): break`
BruhBreak ==
    /\ bpc = "read"
    /\ stop_event
    /\ bpc' = "exit"
    /\ UNCHANGED <<moreVars, BATCH_SIZE, frame_no, cells, produced, ci, batch,
                   quantVars, rleVars, screenVars, sendVars>>

\* cap.read() returns ret = False: sleep, continue.
BruhReadMiss ==
    /\ bpc = "read"
    /\ ~stop_event
    /\ misses < MaxMisses
    /\ misses' = misses + 1
    /\ UNCHANGED <<capture_requested, captured_frame, clicks, presses,
                   stop_event, gridVars, avgVars, tetrisVars, quantVars, rleVars,
                   batchVars, screenVars, sendVars>>

\* cap.read() returns a frame; the preview is updated and root.update() runs
\* on_capture for every waiting press, and on_close if the window was closed.
BruhReadUpdate ==
    /\ bpc = "read"
    /\ ~stop_event
    /\ frame_no < MaxFrames
    /\ frame_no' = frame_no + 1
    /\ capture_requested' = (capture_requested \/ clicks > 0)
    /\ clicks' = 0
    /\ stop_event' \in BOOLEAN
    /\ bpc' = "updated"
    /\ UNCHANGED <<captured_frame, presses, misses, gridVars, avgVars, tetrisVars,
                   BATCH_SIZE, cells, produced, ci, batch, quantVars, rleVars,
                   screenVars, sendVars>>

\* `if capture_requested:` copy the frame and clear the flag;
\* `if captured_frame is not None:` process it, build its cells, batch = [];
\* otherwise sleep.
BruhSnapshot ==
    /\ bpc = "updated"
    /\ capture_requested' = FALSE
    /\ captured_frame' = IF capture_requested THEN <<frame_no>> ELSE captured_frame
    /\ IF captured_frame' # None
       THEN /\ cells' = [i \in 1..(width * height) |-> <<captured_frame'[1], i>>]
            /\ produced' = produced \o cells'
            /\ batch' = FreshBatch
            /\ ci' = 0
            /\ bpc' = "loop"
       ELSE /\ bpc' = "read"
            /\ UNCHANGED <<cells, produced, batch, ci>>
    /\ UNCHANGED <<clicks, presses, misses, stop_event, gridVars, avgVars, tetrisVars,
                   BATCH_SIZE, frame_no, quantVars, rleVars, screenVars,
                   sendVars>>

\* After the loop: `if batch: send_cells(batch)`, `captured_frame = None`,
\* sleep.
BruhFinish ==
    /\ bpc = "loop"
    /\ ci = Len(cells)
    /\ IF TailDue(batch) THEN SendCells(batch) ELSE UNCHANGED sendVars
    /\ captured_frame' = Released
    /\ bpc' = "read"
    /\ UNCHANGED <<capture_requested, clicks, presses, misses, stop_event,
                   gridVars, avgVars, tetrisVars, BATCH_SIZE, frame_no, cells, produced, ci,
                   batch, quantVars, rleVars, screenVars>>

NextBruh ==
    \/ PressCapture \/ BruhBreak \/ BruhReadMiss \/ BruhReadUpdate
    \/ BruhSnapshot \/ AppendCell \/ BruhFinish

SpecBruh == InitBruh /\ [][NextBruh]_vars

(***************************************************************************)
(* tetris.py.  The playfield is modelled WIDTH x HEIGHT with small values  *)
(* of the two constants.  A board is a sequence of HEIGHT rows of WIDTH    *)
(* cells, None or a colour; board[ny][nx] of the source (0-based) is       *)
(* board[ny + 1][nx + 1] here, and likewise for shape.                     *)
(***************************************************************************)
SHAPES ==
    << [shape |-> << <<1, 1, 1, 1>> >>, color |-> <<0, 255, 255>>],
       [shape |-> << <<1, 1>>, <<1, 1>> >>, color |-> <<255, 255, 0>>],
       [shape |-> << <<0, 1, 0>>, <<1, 1, 1>> >>, color |-> <<160, 0, 240>>],
       [shape |-> << <<1, 0, 0>>, <<1, 1, 1>> >>, color |-> <<0, 0, 255>>],
       [shape |-> << <<0, 0, 1>>, <<1, 1, 1>> >>, color |-> <<255, 165, 0>>],
       [shape |-> << <<0, 1, 1>>, <<1, 1, 0>> >>, color |-> <<0, 255, 0>>],
       [shape |-> << <<1, 1, 0>>, <<0, 1, 1>> >>, color |-> <<255, 0, 0>>] >>

\* The values random_piece() returns.
Pieces == {SHAPES[i] : i \in 1..NumShapes}

\* rotate: `zip(*shape[::-1])`, row i of the result is column i of the shape
\* read from the last row up.
rotate(sh) ==
    [i \in 1..Len(sh[1]) |-> [j \in 1..Len(sh) |-> sh[Len(sh) + 1 - j][i]]]

\* new_piece: the column a piece is spawned at (the row is 0).
SpawnX(sh) == (WIDTH \div 2) - (Len(sh[1]) \div 2)

\* The (x, y) of `for y, row in enumerate(shape): for x, cell in
\* enumerate(row): if cell`.
FilledCells(sh) ==
    {xy \in (0..(Len(sh[1]) - 1)) \X (0..(Len(sh) - 1)) : sh[xy[2] + 1][xy[1] + 1] = 1}

\* collision without the test of the board cell: a mutant.
collision_WallsOnly(b, sh, x0, y0) ==
    \E xy \in FilledCells(sh) :
        x0 + xy[1] < 0 \/ x0 + xy[1] >= WIDTH \/ y0 + xy[2] >= HEIGHT

collision(b, sh, x0, y0) ==
    \E xy \in FilledCells(sh) :
        LET nx == x0 + xy[1]
            ny == y0 + xy[2]
        IN  IF nx < 0 \/ nx >= WIDTH \/ ny >= HEIGHT
            THEN TRUE
            ELSE ny >= 0 /\ b[ny + 1][nx + 1] # None

\* lock_piece: the board with the piece's cells set to its colour.
lock_piece(b, sh, col, x0, y0) ==
    [r \in 1..HEIGHT |->
        [c \in 1..WIDTH |->
            IF <<c - 1 - x0, r - 1 - y0>> \in FilledCells(sh) THEN col ELSE b[r][c]]]

\* `[None] * WIDTH`
EmptyRow == [c \in 1..WIDTH |-> None]

\* `all(row)`
AllFilled(r) == \A c \in 1..Len(r) : r[c] # None

\* clear_lines with the new rows added below the kept ones: a mutant.
clear_lines_Below(b) ==
    LET new_board == SelectSeq(b, LAMBDA r : ~AllFilled(r))
        n == HEIGHT - Len(new_board)
    IN  [board |-> new_board \o [i \in 1..n |-> EmptyRow], cleared |-> n]

\* clear_lines: (new_board, cleared)
clear_lines(b) ==
    LET new_board == SelectSeq(b, LAMBDA r : ~AllFilled(r))
        n == HEIGHT - Len(new_board)
    IN  [board |-> [i \in 1..n |-> EmptyRow] \o new_board, cleared |-> n]

\* `while not collision(board, shape, ox, y):`, the test made on the row
\* the piece is in: a mutant.
DropStops_Here(b, sh, x0, y) == collision(b, sh, x0, y)

\* The exit test of `while not collision(board, shape, ox, y + 1):`, the
\* same in the hard drop of main and in the ghost loop of draw_frame.
DropStops(b, sh, x0, y) == collision(b, sh, x0, y + 1)

\* `while not collision(board, shape, ox, y + 1): y += 1`, the value of y
\* after the loop (the hard drop in main, the ghost in draw_frame).
RECURSIVE DropFrom(_, _, _, _)
DropFrom(b, sh, x0, y) ==
    IF DropStops(b, sh, x0, y) THEN y ELSE DropFrom(b, sh, x0, y + 1)

(***************************************************************************)
(* tetris.py's main.  One action is one iteration of `while True`: the     *)
(* gravity block when the tick is due, the key stdscr.getch() returned, if *)
(* any, and draw_frame, of which the ghost loop is modelled (its cells go  *)
(* to send_cells through the batching loop modelled above and change       *)
(* nothing of the game).  The pieces random_piece() put into next_queue    *)
(* are chosen when new_piece takes them out.                               *)
(***************************************************************************)
\* `score += cleared * 100`: a mutant.
ScoreGain_Linear(k) == k * 100

\* `(cleared ** 2) * 100`
ScoreGain(k) == (k * k) * 100

\* `level = 1 + score // 500`: a mutant.
LevelOf_Fast(sc) == 1 + sc \div 500

\* `1 + score // 1000`
LevelOf(sc) == 1 + sc \div 1000

\* `if cleared: score += (cleared ** 2) * 100; level = 1 + score // 1000`,
\* the score and the level after a lock that cleared k lines.
Scored(sc, lv, k) ==
    IF k # 0
    THEN [score |-> sc + ScoreGain(k), level |-> LevelOf(sc + ScoreGain(k))]
    ELSE [score |-> sc, level |-> lv]

\* The game variables as one record.
Game ==
    [tpc |-> tpc, board |-> board, shape |-> shape, color |-> color, ox |-> ox,
     oy |-> oy, score |-> score, level |-> level, locks |-> locks,
     cleared |-> cleared]

\* The `else` branch of the gravity block: lock, clear, score, new piece p,
\* and the end of the game when p collides where it is spawned.
LockAndSpawn(g, p) ==
    LET cl == clear_lines(lock_piece(g.board, g.shape, g.color, g.ox, g.oy))
        sd == Scored(g.score, g.level, cl.cleared)
    IN  [g EXCEPT !.board = cl.board, !.cleared = cl.cleared,
                  !.score = sd.score, !.level = sd.level,
                  !.locks = g.locks + 1,
                  !.shape = p.shape, !.color = p.color,
                  !.ox = SpawnX(p.shape), !.oy = 0,
                  !.tpc = IF collision(cl.board, p.shape, SpawnX(p.shape), 0)
                          THEN "over" ELSE "play"]

\* `if now - last >= tick:` with the tick due.
GravityBlock(g, p) ==
    IF ~collision(g.board, g.shape, g.ox, g.oy + 1)
    THEN [g EXCEPT !.oy = g.oy + 1]
    ELSE LockAndSpawn(g, p)

\* The key handling; key is "none" when getch() returned -1.
KeyBlock(g, key) ==
    CASE key = "quit" -> [g EXCEPT !.tpc = "quit"]
      [] key = "left" ->
            IF ~collision(g.board, g.shape, g.ox - 1, g.oy)
            THEN [g EXCEPT !.ox = g.ox - 1] ELSE g
      [] key = "right" ->
            IF ~collision(g.board, g.shape, g.ox + 1, g.oy)
            THEN [g EXCEPT !.ox = g.ox + 1] ELSE g
      [] key = "down" ->
            IF ~collision(g.board, g.shape, g.ox, g.oy + 1)
            THEN [g EXCEPT !.oy = g.oy + 1] ELSE g
      [] key = "rotate" ->
            IF ~collision(g.board, rotate(g.shape), g.ox, g.oy)
            THEN [g EXCEPT !.shape = rotate(g.shape)] ELSE g
      [] key = "drop" ->
            [g EXCEPT !.oy = DropFrom(g.board, g.shape, g.ox, g.oy)]
      [] OTHER -> g

\* One iteration: the gravity block if due, then the key unless the game
\* ended, then draw_frame (also called before the return at the game's end,
\* not before the return on quit).
Iteration(due, key, p) ==
    \E g1 \in {IF due THEN GravityBlock(Game, p) ELSE Game} :
    \E g2 \in {IF g1.tpc = "play" THEN KeyBlock(g1, key) ELSE g1} :
        /\ tpc' = g2.tpc
        /\ board' = g2.board
        /\ shape' = g2.shape
        /\ color' = g2.color
        /\ ox' = g2.ox
        /\ oy' = g2.oy
        /\ score' = g2.score
        /\ level' = g2.level
        /\ locks' = g2.locks
        /\ cleared' = g2.cleared
        /\ ghost_y' = IF g2.tpc = "quit" THEN ghost_y
                      ELSE DropFrom(g2.board, g2.shape, g2.ox, g2.oy)
        /\ UNCHANGED steps
        /\ UNCHANGED <<gridVars, bruhVars, avgVars, quantVars, rleVars,
                       batchVars, screenVars, sendVars>>

\* Whether the gravity block, if due, may run: a lock is taken only while
\* fewer than MaxLocks pieces are locked.
MayTick(due) ==
    due => (collision(board, shape, ox, oy + 1) => locks < MaxLocks)

\* The pieces new_piece may return in this iteration; it is called only when
\* the gravity block locks the piece.
Spawnable(due) ==
    IF due /\ collision(board, shape, ox, oy + 1) THEN Pieces ELSE {SHAPES[1]}

InitTetris ==
    /\ tpc = "play"
    /\ board = [r \in 1..HEIGHT |-> EmptyRow]
    /\ \E p \in Pieces :
           /\ shape = p.shape
           /\ color = p.color
           /\ ox = SpawnX(p.shape)
    /\ oy = 0
    /\ score = 0
    /\ level = 1
    /\ locks = 0
    /\ ghost_y = 0
    /\ cleared = 0
    /\ steps = 0
    /\ GridOff /\ BruhOff /\ AvgOff
    /\ QuantOff /\ RleOff /\ BatchOff /\ ScreenOff /\ SendOff

\* The tick is due and no key is waiting.
GravityTick ==
    /\ tpc = "play" /\ MayTick(TRUE)
    /\ \E p \in Spawnable(TRUE) : Iteration(TRUE, "none", p)

KeyQuit ==
    /\ tpc = "play"
    /\ \E due \in BOOLEAN :
           MayTick(due) /\ \E p \in Spawnable(due) : Iteration(due, "quit", p)

KeyLeft ==
    /\ tpc = "play"
    /\ \E due \in BOOLEAN :
           MayTick(due) /\ \E p \in Spawnable(due) : Iteration(due, "left", p)

KeyRight ==
    /\ tpc = "play"
    /\ \E due \in BOOLEAN :
           MayTick(due) /\ \E p \in Spawnable(due) : Iteration(due, "right", p)

KeyDown ==
    /\ tpc = "play"
    /\ \E due \in BOOLEAN :
           MayTick(due) /\ \E p \in Spawnable(due) : Iteration(due, "down", p)

KeyRotate ==
    /\ tpc = "play"
    /\ \E due \in BOOLEAN :
           MayTick(due) /\ \E p \in Spawnable(due) : Iteration(due, "rotate", p)

KeyHardDrop ==
    /\ tpc = "play"
    /\ \E due \in BOOLEAN :
           MayTick(due) /\ \E p \in Spawnable(due) : Iteration(due, "drop", p)

NextTetris ==
    \/ GravityTick \/ KeyQuit \/ KeyLeft \/ KeyRight \/ KeyDown \/ KeyRotate
    \/ KeyHardDrop

SpecTetris == InitTetris /\ [][NextTetris]_vars

(***************************************************************************)
(* The game together with the scoring statements of a lock taken alone:    *)
(* in a short game on the small playfield the score stays below 1000, so   *)
(* the statements are also applied to the scores a longer game passes      *)
(* through (sums of 100, 400, 900 and 1600, that is, multiples of 100),    *)
(* with the level main has computed for them, and to every count           *)
(* clear_lines can return.                                                 *)
(***************************************************************************)
StartScores == {100 * i : i \in 0..MaxHundreds}

InitScoring ==
    /\ tpc = "scoring"
    /\ score \in StartScores
    /\ level = LevelOf(score)
    /\ cleared \in 0..HEIGHT
    /\ board = None /\ shape = None /\ color = None
    /\ ox = 0 /\ oy = 0 /\ locks = 0 /\ ghost_y = 0 /\ steps = 0
    /\ GridOff /\ BruhOff /\ AvgOff
    /\ QuantOff /\ RleOff /\ BatchOff /\ ScreenOff /\ SendOff

\* The scoring statements after `board, cleared = clear_lines(board)`.
ScoreLock ==
    /\ tpc = "scoring"
    /\ tpc' = "scored"
    /\ score' = Scored(score, level, cleared).score
    /\ level' = Scored(score, level, cleared).level
    /\ locks' = locks + 1
    /\ UNCHANGED <<board, shape, color, ox, oy, ghost_y, cleared, steps>>
    /\ UNCHANGED <<gridVars, bruhVars, avgVars, quantVars, rleVars, batchVars,
                   screenVars, sendVars>>

InitGameOrScoring == InitTetris \/ InitScoring

NextGameOrScoring == NextTetris \/ ScoreLock

SpecScoring == InitGameOrScoring /\ [][NextGameOrScoring]_vars

(***************************************************************************)
(* clear_lines and the two downward search loops alone, on boards of any   *)
(* content.  A board is HEIGHT rows, each empty, full, filled in its left  *)
(* cell only, or filled everywhere but its left cell; the piece is one of  *)
(* Pieces in any orientation, anywhere over the columns and rows.  The     *)
(* loops run one iteration per step; `steps` counts the iterations.        *)
(***************************************************************************)
Filled == SHAPES[1].color

RowKinds ==
    { EmptyRow,
      [c \in 1..WIDTH |-> Filled],
      [c \in 1..WIDTH |-> IF c = 1 THEN Filled ELSE None],
      [c \in 1..WIDTH |-> IF c = 1 THEN None ELSE Filled] }

Boards == [1..HEIGHT -> RowKinds]

Orientations(sh) ==
    {sh, rotate(sh), rotate(rotate(sh)), rotate(rotate(rotate(sh)))}

InitBoard ==
    /\ tpc = "input"
    /\ board \in Boards
    /\ \E p \in Pieces :
           /\ shape \in Orientations(p.shape)
           /\ color = p.color
    /\ ox \in 0..(WIDTH - 1)
    /\ oy \in 0..(HEIGHT - 1)
    /\ score = 0
    /\ level = 0
    /\ locks = 0
    /\ ghost_y = 0
    /\ cleared = 0
    /\ steps = 0
    /\ GridOff /\ BruhOff /\ AvgOff
    /\ QuantOff /\ RleOff /\ BatchOff /\ ScreenOff /\ SendOff

OtherPartsIdle ==
    UNCHANGED <<gridVars, bruhVars, avgVars, quantVars, rleVars, batchVars,
                screenVars, sendVars>>

\* `board, cleared = clear_lines(board)`
ClearLines ==
    /\ tpc = "input"
    /\ tpc' = "cleared"
    /\ board' = clear_lines(board).board
    /\ cleared' = clear_lines(board).cleared
    /\ UNCHANGED <<shape, color, ox, oy, score, level, locks, ghost_y, steps>>
    /\ OtherPartsIdle

\* One iteration of the hard-drop loop: `oy += 1`.
HardDropStep ==
    /\ tpc \in {"input", "dropping"}
    /\ ~DropStops(board, shape, ox, oy)
    /\ tpc' = "dropping"
    /\ oy' = oy + 1
    /\ steps' = steps + 1
    /\ UNCHANGED <<board, shape, color, ox, score, level, locks, ghost_y,
                   cleared>>
    /\ OtherPartsIdle

\* The hard-drop loop's test fails: the loop is left.
HardDropEnd ==
    /\ tpc \in {"input", "dropping"}
    /\ DropStops(board, shape, ox, oy)
    /\ tpc' = "dropped"
    /\ UNCHANGED <<board, shape, color, ox, oy, score, level, locks, ghost_y,
                   cleared, steps>>
    /\ OtherPartsIdle

\* draw_frame: `ghost_y = oy`
GhostBegin ==
    /\ tpc = "input"
    /\ tpc' = "ghost"
    /\ ghost_y' = oy
    /\ UNCHANGED <<board, shape, color, ox, oy, score, level, locks, cleared,
                   steps>>
    /\ OtherPartsIdle

\* One iteration of the ghost loop: `ghost_y += 1`.
GhostStep ==
    /\ tpc = "ghost"
    /\ ~DropStops(board, shape, ox, ghost_y)
    /\ ghost_y' = ghost_y + 1
    /\ steps' = steps + 1
    /\ UNCHANGED <<tpc, board, shape, color, ox, oy, score, level, locks,
                   cleared>>
    /\ OtherPartsIdle

\* The ghost loop's test fails: the loop is left.
GhostEnd ==
    /\ tpc = "ghost"
    /\ DropStops(board, shape, ox, ghost_y)
    /\ tpc' = "ghosted"
    /\ UNCHANGED <<board, shape, color, ox, oy, score, level, locks, ghost_y,
                   cleared, steps>>
    /\ OtherPartsIdle

NextBoard ==
    \/ ClearLines \/ HardDropStep \/ HardDropEnd \/ GhostBegin \/ GhostStep
    \/ GhostEnd

SpecBoard == InitBoard /\ [][NextBoard]_vars

(***************************************************************************)
(* Properties of the quantizer.                                            *)
(***************************************************************************)
White == <<255, 255, 255>>
Black == <<0, 0, 0>>
Red == <<255, 0, 0>>
Blue == <<0, 0, 255>>

\* Error(mask), recomputed from the statement of the property: the quadrant
\* indices of the two groups, their rounded means (half up), and the sum
\* of the four distances.
FgIdx(m) == {i \in 0..3 : (m \div (2 ^ i)) % 2 = 1}
BgIdx(m) == (0..3) \ FgIdx(m)
IdxSum(q, S, k) ==
    (IF 0 \in S THEN q[1][k] ELSE 0) + (IF 1 \in S THEN q[2][k] ELSE 0)
    + (IF 2 \in S THEN q[3][k] ELSE 0) + (IF 3 \in S THEN q[4][k] ELSE 0)
MeanOver(q, S) ==
    LET T == IF S = {} THEN 0..3 ELSE S
        n == Cardinality(T)
    IN  [k \in 1..3 |-> (2 * IdxSum(q, T, k) + n) \div (2 * n)]
Target(q, m, i) == IF i \in FgIdx(m) THEN MeanOver(q, FgIdx(m)) ELSE MeanOver(q, BgIdx(m))
Error(q, m) ==
    BigAdd(BigAdd(color_dist2(q[1], Target(q, m, 0)), color_dist2(q[2], Target(q, m, 1))),
           BigAdd(color_dist2(q[3], Target(q, m, 2)), color_dist2(q[4], Target(q, m, 3))))

\* C1: for every four-colour input the mask pick_best_mask returns has an
\* Error less than or equal to the Error of each of the 16 masks 0..15.
C1_SelectedMaskMinimizesError ==
    qpc = "done" =>
        \A m \in 0..15 : ~BigLess(Error(quads, m), Error(quads, picked[1]))

\* A block whose best mask is not mask 0 and strictly beats some other mask.
C1_Witness ==
    /\ qpc = "done"
    /\ picked[1] # 0
    /\ \E m \in 0..15 : BigLess(Error(quads, picked[1]), Error(quads, m))

C3_WhiteOverBlack ==
    (qpc = "done" /\ quads = <<White, White, Black, Black>>) =>
        /\ picked = <<3, White, Black>>
        /\ cell.ch = QUAD_CHARS[3 + 1]
        /\ cell.ch = 9600
        /\ cell.fg = White
        /\ cell.bg = Black

C3_Witness ==
    /\ qpc = "done"
    /\ quads = <<White, White, Black, Black>>
    /\ picked[1] = 3

(***************************************************************************)
(* Properties of compress_row_rgb.                                         *)
(***************************************************************************)
RECURSIVE CountSum(_)
CountSum(rs) == IF rs = <<>> THEN 0 ELSE Head(rs).count + CountSum(Tail(rs))

RECURSIVE Expand(_)
Expand(rs) ==
    IF rs = <<>> THEN <<>>
    ELSE [i \in 1..Head(rs).count |-> Head(rs).fg] \o Expand(Tail(rs))

\* The index of the run that covers row position p (1-based), by the counts.
RECURSIVE RunOf(_, _)
RunOf(rs, p) ==
    IF p <= Head(rs).count THEN 1 ELSE 1 + RunOf(Tail(rs), p - Head(rs).count)

\* C8: for every row of width W >= 0 the counts of the returned runs sum to
\* exactly W and every returned run has count >= 1.
C8_CountsSumToWidth ==
    rpc = "done" =>
        /\ CountSum(runs) = Len(row)
        /\ \A j \in 1..Len(runs) : runs[j].count >= 1

\* A row of three or more pixels encoded as two or more runs.
C8_Witness ==
    /\ rpc = "done"
    /\ Len(row) >= 3
    /\ Len(runs) >= 2
    /\ \E j \in 1..Len(runs) : runs[j].count >= 2

\* C9: expanding the returned runs in order (each run's fg colour repeated
\* count times) reproduces the row pixel for pixel; [red, red, red, blue]
\* encodes to a run of 3 red followed by a run of 1 blue.
C9_RoundTrip ==
    rpc = "done" =>
        /\ Expand(runs) = row
        /\ row = <<Red, Red, Red, Blue>> =>
               runs = << [count |-> 3, ch |-> 9632, fg |-> Red, bg |-> Black],
                         [count |-> 1, ch |-> 9632, fg |-> Blue, bg |-> Black] >>

C9_Witness ==
    /\ rpc = "done"
    /\ row = <<Red, Red, Red, Blue>>
    /\ Len(runs) = 2

\* C10: runs are maximal: two consecutive runs have fg colours that differ in
\* at least one channel, and two neighbouring pixels are in the same run
\* exactly when all three of their channels are equal.
C10_RunsMaximal ==
    rpc = "done" =>
        /\ \A j \in 1..(Len(runs) - 1) :
               \E k \in 1..3 : runs[j].fg[k] # runs[j + 1].fg[k]
        /\ \A p \in 1..(Len(row) - 1) :
               (RunOf(runs, p) = RunOf(runs, p + 1))
                   <=> (\A k \in 1..3 : row[p][k] = row[p + 1][k])

\* A row with a merged pair of equal pixels next to a pixel that differs from
\* them in the blue channel only.
C10_Witness ==
    /\ rpc = "done"
    /\ \E p \in 1..(Len(row) - 2) :
           /\ row[p] = row[p + 1]
           /\ row[p + 1][1] = row[p + 2][1]
           /\ row[p + 1][2] = row[p + 2][2]
           /\ row[p + 1][3] # row[p + 2][3]
           /\ RunOf(runs, p) = RunOf(runs, p + 1)
           /\ RunOf(runs, p + 1) # RunOf(runs, p + 2)

(***************************************************************************)
(* Properties of the batching loop.                                        *)
(***************************************************************************)
RECURSIVE Flatten(_)
Flatten(calls) ==
    IF calls = <<>> THEN <<>> ELSE Head(calls).payload \o Flatten(Tail(calls))

\* The frame a (non-empty) batch belongs to: the frame of its first cell.
FrameOf(b) == b[1][1]

\* The cells of `produced` that belong to frame k.
CellsOfFrame(k) == SelectSeq(produced, LAMBDA u : u[1] = k)

\* The calls of `handed` whose batch belongs to frame k.
BatchesOfFrame(k) == SelectSeq(handed, LAMBDA c : c.payload # <<>> /\ FrameOf(c.payload) = k)

\* The cells of the current frame the loop has not consumed yet.
Unconsumed == SubSeq(cells, ci + 1, Len(cells))

\* C4: the concatenation of all batches handed to send_cells, in hand-off
\* order, equals the cell sequence element for element (while the loop runs:
\* together with the open batch and the cells not yet consumed), and no
\* handed-off batch has more than BATCH_SIZE elements.
C4_BatchesConcatenateToInput ==
    bpc # "off" =>
        /\ \A j \in 1..Len(handed) : Len(handed[j].payload) <= BATCH_SIZE
        /\ bpc = "loop" => Flatten(handed) \o batch \o Unconsumed = produced
        /\ bpc \in {"read", "exit"} => Flatten(handed) = produced

\* Two frames have been sent in full, one of them in more than one batch.
C4_Witness ==
    /\ bpc = "read"
    /\ frame_no = 2
    /\ Len(handed) >= 3
    /\ Flatten(handed) = produced
    /\ Len(produced) > BATCH_SIZE

\* C5: every handed-off batch is non-empty, every batch of a frame except
\* possibly its last has exactly BATCH_SIZE elements, the open batch is
\* always shorter than BATCH_SIZE, and a frame of n cells is handed off in
\* ceil(n / BATCH_SIZE) batches (none trailing and empty when BATCH_SIZE
\* divides n).
C5_FullBatchesThenRemainder ==
    bpc # "off" =>
        /\ \A j \in 1..Len(handed) : Len(handed[j].payload) >= 1
        /\ \A j \in 1..(Len(handed) - 1) :
               FrameOf(handed[j].payload) = FrameOf(handed[j + 1].payload)
                   => Len(handed[j].payload) = BATCH_SIZE
        /\ bpc = "loop" =>
               /\ Len(batch) < BATCH_SIZE
               /\ \A j \in 1..Len(handed) :
                      FrameOf(handed[j].payload) = frame_no
                          => Len(handed[j].payload) = BATCH_SIZE
        /\ bpc \in {"read", "exit"} =>
               \A k \in 1..frame_no :
                   Len(BatchesOfFrame(k))
                       = (Len(CellsOfFrame(k)) + BATCH_SIZE - 1) \div BATCH_SIZE

\* A finished frame whose length is a multiple (twice or more) of BATCH_SIZE,
\* and a finished frame with a shorter last batch.
C5_Witness ==
    /\ bpc = "read"
    /\ frame_no = 2
    /\ BATCH_SIZE >= 2
    /\ Len(CellsOfFrame(1)) = 2 * BATCH_SIZE
    /\ Len(BatchesOfFrame(1)) = 2
    /\ Len(CellsOfFrame(2)) = BATCH_SIZE + 1
    /\ Len(BatchesOfFrame(2)) = 2

\* C6: no handed-off batch holds cells of two frames, cells are handed off in
\* frame order, when the processing of a frame ends all of its cells have
\* been handed off, and the batch is empty before the first cell of the next
\* frame is appended (the open batch only ever holds cells of the current
\* frame).
C6_NoBatchAcrossFrames ==
    bpc # "off" =>
        /\ \A j \in 1..Len(handed) :
               \A i \in 1..Len(handed[j].payload) :
                   handed[j].payload[i][1] = FrameOf(handed[j].payload)
        /\ \A j \in 1..(Len(handed) - 1) :
               FrameOf(handed[j].payload) <= FrameOf(handed[j + 1].payload)
        /\ bpc \in {"read", "exit"} => Flatten(handed) = produced
        /\ bpc = "loop" =>
               /\ \A i \in 1..Len(batch) : batch[i][1] = frame_no
               /\ ci = 0 => batch = <<>>

\* The second frame's loop is running after a first frame that ended with a
\* remainder batch (which the list `batch` still held when the frame ended).
C6_Witness ==
    /\ bpc = "loop"
    /\ frame_no = 2
    /\ ci >= 1
    /\ batch # <<>>
    /\ Len(BatchesOfFrame(1)) >= 2
    /\ Len(handed[Len(BatchesOfFrame(1))].payload) < BATCH_SIZE

(***************************************************************************)
(* Properties of the hand-off to the transports.                           *)
(***************************************************************************)
AttemptsOf(p) == SelectSeq(wire, LAMBDA a : a.payload = p)

\* The payloads of the attempts on the wire, a payload's consecutive attempts
\* counted once.
RECURSIVE WirePayloads(_)
WirePayloads(w) ==
    IF w = <<>> THEN <<>>
    ELSE IF Len(w) >= 2 /\ w[1].payload = w[2].payload
         THEN WirePayloads(Tail(w))
         ELSE <<w[1].payload>> \o WirePayloads(Tail(w))

HandedPayloads == [j \in 1..Len(handed) |-> handed[j].payload]

\* C7 as stated: every payload handed to send_cells or send_frame gets exactly
\* one send attempt; no second attempt follows an attempt that failed.
C7_SingleAttemptPerPayload ==
    \A j \in 1..Len(handed) :
        handed[j].call \in {"send_cells", "send_frame"}
            => Len(AttemptsOf(handed[j].payload)) = 1

\* C7, amended: every payload is handed over exactly once and in production
\* order, and the attempts on the wire follow the hand-off order.  send_cells
\* makes exactly one HTTP POST per batch, whatever its outcome.  send_frame
\* makes at most one attempt per transport: a WebSocket send when a
\* connection is held or can be opened, and one HTTP POST of the same payload
\* exactly when there was no WebSocket send or it raised; a POST that raised
\* is never repeated.
C7_OneAttemptPerTransport ==
    /\ \A i, j \in 1..Len(handed) : i # j => handed[i].payload # handed[j].payload
    /\ WirePayloads(wire) = HandedPayloads
    /\ bpc \in {"read", "exit"} => Flatten(handed) = produced
    /\ \A j \in 1..Len(handed) :
           handed[j].call = "send_frame" => handed[j].payload[2] = j - 1
    /\ \A j \in 1..Len(handed) :
           LET att == AttemptsOf(handed[j].payload)
           IN  IF handed[j].call = "send_cells"
               THEN Len(att) = 1 /\ att[1].via = "http"
               ELSE \/ Len(att) = 1 /\ att[1].via = "ws" /\ att[1].ok
                    \/ Len(att) = 1 /\ att[1].via = "http"
                    \/ /\ Len(att) = 2
                       /\ att[1].via = "ws" /\ ~att[1].ok
                       /\ att[2].via = "http"

\* The rows of a grab went out by HTTP after their WebSocket send raised, that
\* POST raised too, and the next grab's rows were then sent once.
C7_Witness ==
    /\ spc = "frame"
    /\ \E j \in 1..(Len(handed) - 1) :
           /\ handed[j].call = "send_frame"
           /\ Len(AttemptsOf(handed[j].payload)) = 2
           /\ ~AttemptsOf(handed[j].payload)[2].ok
           /\ Len(AttemptsOf(handed[j + 1].payload)) = 1

(***************************************************************************)
(* Properties of build_cells_from_frame.                                   *)
(***************************************************************************)
\* The sub-pixel at column sx, row sy (0-based) of the resized frame.
SubPixelAt(sx, sy) == frame_rgb[sy + 1][sx + 1]

\* C11: for a grid of width w >= 1 and height h >= 1 the returned list has
\* exactly w * h cells, one for each position (x, y) and none twice, in
\* row-major order, and the cell at (x, y) is the quantization of the
\* sub-pixels (2x, 2y), (2x+1, 2y), (2x, 2y+1), (2x+1, 2y+1) taken as TL, TR,
\* BL, BR.
C11_CellsRowMajorFromSubPixels ==
    gpc = "done" =>
        /\ Len(built) = width * height
        /\ \A y \in 0..(height - 1) : \A x \in 0..(width - 1) :
               LET c == built[y * width + x + 1]
                   p == pick_best_mask(<< SubPixelAt(2 * x, 2 * y),
                                          SubPixelAt(2 * x + 1, 2 * y),
                                          SubPixelAt(2 * x, 2 * y + 1),
                                          SubPixelAt(2 * x + 1, 2 * y + 1) >>)
               IN  /\ c.x = x /\ c.y = y
                   /\ c.ch = QUAD_CHARS[p[1] + 1]
                   /\ c.fg = p[2] /\ c.bg = p[3]
        /\ \A i, j \in 1..Len(built) :
               i # j => <<built[i].x, built[i].y>> # <<built[j].x, built[j].y>>

\* A 2 x 2 grid whose four cells were built from blocks in which TR and BL
\* differ.
C11_Witness ==
    /\ gpc = "done" /\ width = 2 /\ height = 2 /\ Len(built) = 4
    /\ SubPixelAt(1, 0) # SubPixelAt(0, 1)
    /\ built[2] # built[3]

(***************************************************************************)
(* Properties of the frame loops with the grid size.                       *)
(***************************************************************************)
CallsOf(fn) == SelectSeq(handed, LAMBDA c : c.call = fn)

\* C12: if the grid width or height is <= 0, processing the frame fails with
\* an error and no batch of the frame is handed to the transport: send_cells
\* is first called for a frame only after build_cells_from_frame has returned
\* the frame's complete cell list, and send_frame only after all rows are
\* encoded.
C12_BadGridFailsBeforeAnySend ==
    /\ (width <= 0 \/ height <= 0) =>
           /\ CallsOf("send_cells") = <<>> /\ CallsOf("send_frame") = <<>>
           /\ bpc # "loop"
           /\ frame_no >= 1 => bpc = "error"
           /\ grab_no >= 1 => spc = "error"
    /\ bpc = "loop" => Len(cells) = width * height
    /\ CallsOf("send_cells") # <<>> =>
           /\ Len(produced) = frame_no * width * height
           /\ Len(Flatten(CallsOf("send_cells"))) <= Len(produced)
           /\ Flatten(CallsOf("send_cells"))
                  = SubSeq(produced, 1, Len(Flatten(CallsOf("send_cells"))))
    /\ \A i \in 1..Len(CallsOf("send_frame")) :
           LET rows == CallsOf("send_frame")[i].payload
           IN  /\ Len(rows) = height
               /\ \A y \in 1..height : CountSum(rows[y].runs) = width

\* The first frame of a video failed on a grid of width 0.
C12_Witness ==
    /\ width = 0 /\ height >= 1 /\ bpc = "error" /\ frame_no = 1
    /\ handed = <<>>

(***************************************************************************)
(* Properties of the quantizer's empty groups and of its mask range.       *)
(***************************************************************************)
\* The mean of the four pixels of the block, per channel, rounded half-up.
Mean4 ==
    [k \in 1..3 |->
        (2 * (quads[1][k] + quads[2][k] + quads[3][k] + quads[4][k]) + 4) \div 8]

IsColour(c) == c \in (0..255) \X (0..255) \X (0..255)

\* C13: an empty group never produces an error: pick_best_mask returns
\* normally for every 4-colour input; for mask 0 (empty foreground set) and
\* mask 15 (empty background set) the colour of the empty side is the rounded
\* mean of all four pixels, so whenever mask 0 is returned fg = bg = that
\* mean.
C13_EmptyGroupUsesMeanOfAll ==
    qpc = "done" =>
        /\ picked[1] \in 0..15 /\ IsColour(picked[2]) /\ IsColour(picked[3])
        /\ MaskFg(quads, 0) = Mean4
        /\ MaskBg(quads, 15) = Mean4
        /\ picked[1] = 0 => picked[2] = Mean4 /\ picked[3] = Mean4

\* Mask 0 was returned for a block that is not black.
C13_Witness ==
    /\ qpc = "done" /\ picked[1] = 0 /\ quads[1] # <<0, 0, 0>>
    /\ picked[2] = picked[3]

(***************************************************************************)
(* Properties of average_color.                                            *)
(***************************************************************************)
\* C14: average_color of an empty collection returns (0, 0, 0), and
\* average_color of a single colour c returns exactly c, for every c with
\* channels in 0..255.
C14_EmptyAndSingle ==
    apc = "done" =>
        /\ Len(avg_colors) = 0 => avg = <<0, 0, 0>>
        /\ Len(avg_colors) = 1 => avg = avg_colors[1]

\* A single colour with three different channel values was averaged.
C14_Witness ==
    /\ apc = "done" /\ avg_colors = << <<200, 120, 55>> >>
    /\ avg = <<200, 120, 55>>

\* The sum of channel k over the first i colours of the collection.
RECURSIVE ChannelTotal(_, _)
ChannelTotal(k, i) ==
    IF i = 0 THEN 0 ELSE ChannelTotal(k, i - 1) + avg_colors[i][k]

\* C15: for every non-empty collection of 1 to 4 colours average_color
\* returns per channel the arithmetic mean rounded half-up, that is
\* floor((2 * sum + n) / (2 * n)) for n colours; in particular the mean of
\* the channel values 0 and 1 is 1; every returned channel is an integer in
\* 0..255.
C15_MeanRoundedHalfUp ==
    (apc = "done" /\ Len(avg_colors) >= 1) =>
        /\ \A k \in 1..3 :
               /\ avg[k] = (2 * ChannelTotal(k, Len(avg_colors)) + Len(avg_colors))
                               \div (2 * Len(avg_colors))
               /\ avg[k] \in 0..255
        /\ \A k \in 1..3 :
               (Len(avg_colors) = 2 /\ avg_colors[1][k] = 0 /\ avg_colors[2][k] = 1)
                   => avg[k] = 1

\* The colours (0, 0, 0) and (0, 1, 0) were averaged: green 0 and 1 give 1.
C15_Witness ==
    /\ apc = "done"
    /\ avg_colors = << <<0, 0, 0>>, <<0, 1, 0>> >>
    /\ avg = <<0, 1, 0>>

(***************************************************************************)
(* Properties of the glyph table.                                          *)
(***************************************************************************)
\* The alphabet as the specification lists it, index 0 first.
SpecAlphabet ==
    << 32, 9624, 9629, 9600, 9622, 9612, 9630, 9627,
       9623, 9626, 9616, 9628, 9604, 9625, 9631, 9632 >>

\* The quadrants (0 = TL, 1 = TR, 2 = BL, 3 = BR) a glyph fills, by the
\* Unicode name of the character; U+25A0 is the glyph used for a cell that
\* is filled entirely.
GlyphQuadrants(cp) ==
    CASE cp = 32 -> {}
      [] cp = 9624 -> {0}
      [] cp = 9629 -> {1}
      [] cp = 9600 -> {0, 1}
      [] cp = 9622 -> {2}
      [] cp = 9612 -> {0, 2}
      [] cp = 9630 -> {1, 2}
      [] cp = 9627 -> {0, 1, 2}
      [] cp = 9623 -> {3}
      [] cp = 9626 -> {0, 3}
      [] cp = 9616 -> {1, 3}
      [] cp = 9628 -> {0, 1, 3}
      [] cp = 9604 -> {2, 3}
      [] cp = 9625 -> {0, 2, 3}
      [] cp = 9631 -> {1, 2, 3}
      [] cp = 9632 -> {0, 1, 2, 3}

\* C16: the glyph emitted for a cell is QUAD_CHARS[mask] for the selected
\* mask; QUAD_CHARS of bruh.py and of video.py are the same 16-entry table as
\* the specification's alphabet; index m holds the glyph whose filled
\* quadrants are exactly the bits set in m (bit0 = TL, bit1 = TR, bit2 = BL,
\* bit3 = BR), index 0 is a space and index 15 the full glyph.
C16_GlyphIsTableEntryOfMask ==
    /\ qpc = "done" =>
           /\ cell.ch = QUAD_CHARS[picked[1] + 1]
           /\ GlyphQuadrants(cell.ch) = FgIdx(picked[1])
    /\ Len(QUAD_CHARS) = 16
    /\ QUAD_CHARS = QUAD_CHARS_video
    /\ QUAD_CHARS = SpecAlphabet
    /\ \A m \in 0..15 : GlyphQuadrants(QUAD_CHARS[m + 1]) = FgIdx(m)
    /\ QUAD_CHARS[1] = 32 /\ QUAD_CHARS[16] = 9632

\* A cell was given the glyph of mask 6 (TR and BL filled).
C16_Witness ==
    /\ qpc = "done" /\ picked[1] = 6 /\ cell.ch = 9630

(***************************************************************************)
(* Properties of bruh.py's capture loop.                                   *)
(***************************************************************************)
\* The cells build_cells_from_frame returns for the k-th frame.
PhotoCells(k) == [i \in 1..(width * height) |-> <<k, i>>]

\* The state part: nothing is held between iterations, the cells in the loop
\* are those of the frame just read, there are at most as many photos as
\* presses, and what was sent is the photos' cells, each once, in order.
PhotoInvariant ==
    /\ bpc = "read" => captured_frame = None /\ ~capture_requested
    /\ bpc = "loop" => captured_frame = <<frame_no>> /\ cells = PhotoCells(frame_no)
    /\ presses = 0 => handed = <<>>
    /\ Len(produced) <= presses * width * height
    /\ LET sent == Flatten(handed)
       IN  /\ Len(sent) <= Len(produced)
           /\ sent = SubSeq(produced, 1, Len(sent))
    /\ \A i \in 1..(Len(produced) - 1) :
           \/ /\ produced[i + 1][1] = produced[i][1]
              /\ produced[i + 1][2] = produced[i][2] + 1
           \/ /\ produced[i + 1][1] > produced[i][1]
              /\ produced[i + 1][2] = 1
              /\ produced[i][2] = width * height

\* The step part: what a send, the snapshot, the end of the batches, the
\* dispatch of a press and a failed read change.
PhotoStep ==
    /\ handed' # handed =>
           /\ captured_frame = <<frame_no>>
           /\ \A i \in 1..Len(handed'[Len(handed')].payload) :
                  handed'[Len(handed')].payload[i][1] = frame_no
    /\ (bpc = "updated" /\ bpc' # "updated" /\ capture_requested) =>
           /\ captured_frame' = <<frame_no>>
           /\ ~capture_requested'
           /\ bpc' = "loop"
           /\ cells' = PhotoCells(frame_no)
    /\ (bpc = "updated" /\ bpc' # "updated" /\ ~capture_requested) =>
           /\ bpc' = "read"
           /\ captured_frame' = None
           /\ handed' = handed /\ produced' = produced
    /\ (bpc = "loop" /\ bpc' = "read") =>
           /\ captured_frame' = None
           /\ Flatten(BatchesOfFrame(frame_no))' = cells
    /\ clicks' < clicks => frame_no' = frame_no + 1 /\ capture_requested'
    /\ misses' # misses =>
           /\ clicks' = clicks /\ capture_requested' = capture_requested
           /\ handed' = handed /\ frame_no' = frame_no

\* C17: in bruh.py a frame's cells are sent only in response to a press of
\* the Capture button, and a single photo is sent per request: an iteration
\* with a pending request and a frame read snapshots that frame, clears the
\* request, sends that one frame's cells and resets captured_frame to None;
\* with no pending request no cells are sent; a request made while no frame
\* can be read stays pending until a frame is read.
C17_OnePhotoPerRequest == []PhotoInvariant /\ [][PhotoStep]_vars

\* The first frame passed without a request, a read failed while a press was
\* waiting, and the second frame was captured and sent whole.
C17_Witness ==
    /\ bpc = "read" /\ presses = 1 /\ clicks = 0 /\ misses = 1 /\ frame_no = 2
    /\ captured_frame = None
    /\ Flatten(handed) = PhotoCells(2)

(***************************************************************************)
(* Properties of the final run of compress_row_rgb.                        *)
(***************************************************************************)
\* The last run of the returned list closes the row: it has the colour of the
\* last pixel and its pixels are the last pixels of the row.
LastRunClosesRow ==
    /\ runs # <<>>
    /\ runs[Len(runs)].fg = row[Len(row)]
    /\ runs[Len(runs)].count \in 1..Len(row)
    /\ \A p \in (Len(row) - runs[Len(runs)].count + 1)..Len(row) :
           row[p] = runs[Len(runs)].fg
    /\ CountSum(runs) = Len(row)

\* C19 as stated: for every input row, including a row of width 0, the
\* returned list ends with a run that closes the row, so the result is never
\* an empty list.
C19_FinalRunForEveryRow ==
    rpc = "done" => runs # <<>>

\* C19, amended: for every row of width >= 1 the returned list is not empty
\* and ends with a run that closes the row; for a row of width 0 the returned
\* list is empty.
C19_FinalRunForNonEmptyRow ==
    rpc = "done" =>
        IF Len(row) = 0 THEN runs = <<>> ELSE LastRunClosesRow

\* A row whose last pixel differs from the one before it: the final run is a
\* run of that one pixel, appended after the loop.
C19_Witness ==
    /\ rpc = "done" /\ Len(row) >= 2
    /\ row[Len(row)] # row[Len(row) - 1]
    /\ Len(runs) >= 2
    /\ runs[Len(runs)].count = 1

(***************************************************************************)
(* The range of the returned mask.                                         *)
(***************************************************************************)
\* C20: pick_best_mask never returns a mask with bit 3 (BR) set: the returned
\* mask is in 0..7 for every 4-colour input, because a mask m and its
\* complement 15 - m describe the same bipartition and have equal Error and
\* the lower of the two is scanned first under the strict comparison; the
\* glyphs of the indices 8..15 are therefore never emitted.
C20_MaskBelowEight ==
    qpc = "done" =>
        /\ picked[1] \in 0..7
        /\ 3 \notin FgIdx(picked[1])
        /\ \A m \in 0..15 :
               /\ FgIdx(15 - m) = BgIdx(m)
               /\ Error(quads, m) = Error(quads, 15 - m)
               /\ MaskErr(quads, m) = MaskErr(quads, 15 - m)
        /\ \A m \in 8..15 : cell.ch # QUAD_CHARS[m + 1]

\* A block whose bottom-right pixel alone differs from the others: mask 7
\* is returned, not mask 8.
C20_Witness ==
    /\ qpc = "done"
    /\ quads[1] = quads[2] /\ quads[2] = quads[3] /\ quads[3] # quads[4]
    /\ picked[1] = 7

\* ---------------------------------------------------------------------------
\* Properties of the tetris game loop
\* ---------------------------------------------------------------------------

\* The cell of the board under column x, row y (both counted from 0).
BoardCell(x, y) == board[y + 1][x + 1]

\* With its top edge in row y, every filled cell of the piece lies in columns
\* 0..WIDTH-1, in a row below HEIGHT, and on no occupied cell of the board.
FitsAtRow(y) ==
    \A j \in 1..Len(shape) : \A i \in 1..Len(shape[j]) :
        shape[j][i] = 1 =>
            /\ ox + i - 1 \in 0..(WIDTH - 1)
            /\ y + j - 1 < HEIGHT
            /\ y + j - 1 >= 0 => BoardCell(ox + i - 1, y + j - 1) = None

\* The active piece, where it is, does not collide.
PieceFits == FitsAtRow(oy)

\* C21: while the game continues (and when the player has quit it) the active
\* piece does not collide: each of its filled cells is inside the columns,
\* above the floor and on an empty board cell.  The game is over exactly with
\* a piece that has just been spawned, at the spawn position, and collides
\* there: such a piece is never played.
C21_PieceNeverCollides ==
    /\ tpc \in {"play", "quit"} => PieceFits
    /\ tpc = "over" =>
           /\ ~PieceFits
           /\ locks >= 1
           /\ ox = SpawnX(shape)
           /\ oy = 0

\* A piece in play after an earlier one was locked, moved off the spawn row
\* and resting directly beside or above locked cells.
C21_Witness ==
    /\ tpc = "play"
    /\ locks >= 1
    /\ oy >= 1
    /\ PieceFits
    /\ \E x \in 0..(WIDTH - 1) : \E y \in 0..(HEIGHT - 1) : BoardCell(x, y) # None
    /\ collision(board, shape, ox, oy + 1)

\* ---------------------------------------------------------------------------
\* Properties of clear_lines
\* ---------------------------------------------------------------------------

\* Row r has every one of its WIDTH cells occupied.
IsFull(r) == \A c \in 1..WIDTH : r[c] # None

\* The positions of the rows of b that are not full.
NonFullIdx(b) == {i \in 1..Len(b) : ~IsFull(b[i])}

\* What clear_lines must return for the board b: out is the new board and n
\* the count.
ClearedFrom(b, out, n) ==
    /\ Len(out) = HEIGHT
    /\ \A i \in 1..HEIGHT : DOMAIN out[i] = 1..WIDTH
    /\ \A i \in 1..HEIGHT : ~IsFull(out[i])
    /\ n = Cardinality({i \in 1..Len(b) : IsFull(b[i])})
    /\ n \in 0..HEIGHT
    /\ \A i \in 1..n : \A c \in 1..WIDTH : out[i][c] = None
    /\ \A i \in NonFullIdx(b) :
           out[n + Cardinality({j \in NonFullIdx(b) : j <= i})] = b[i]

\* C22: clear_lines returns a board of HEIGHT rows of WIDTH cells without a
\* full row; `cleared` is the number of full rows of the input; the first
\* `cleared` rows of the result are empty and below them are the input's
\* rows that were not full, in their original order.
C22_ClearLinesRemovesFullRows ==
    [][tpc = "input" /\ tpc' = "cleared" => ClearedFrom(board, board', cleared')]_vars

\* Two rows were cleared and two different partly filled rows were kept at
\* the bottom, below the new empty rows.
C22_Witness ==
    /\ tpc = "cleared"
    /\ cleared = 2
    /\ board[1] = EmptyRow
    /\ board[2] = EmptyRow
    /\ board[HEIGHT] # EmptyRow
    /\ board[HEIGHT - 1] # EmptyRow
    /\ board[HEIGHT - 1] # board[HEIGHT]

\* ---------------------------------------------------------------------------
\* Properties of the score and the level
\* ---------------------------------------------------------------------------

\* A step of main that locks a piece.
IsLock == locks' = locks + 1

\* C23: the level is always 1 + score // 1000; the score never decreases; a
\* lock that clears k >= 1 lines adds exactly k*k*100 to the score, a lock
\* that clears no line leaves the score and the level as they were, and so
\* does every step that locks nothing.
C23_LevelFollowsScore ==
    /\ [](tpc # "off" => level = 1 + (score \div 1000))
    /\ [][/\ score' >= score
          /\ IsLock /\ cleared' >= 1 =>
                 score' = score + cleared' * cleared' * 100
          /\ IsLock /\ cleared' = 0 => score' = score /\ level' = level
          /\ ~IsLock => score' = score /\ level' = level]_vars

\* A lock has cleared two lines at once and taken the score over a multiple
\* of 1000, so that the level went up.
C23_Witness ==
    /\ tpc = "scored"
    /\ cleared = 2
    /\ score >= 1000
    /\ score < 1400
    /\ level = 2

\* ---------------------------------------------------------------------------
\* Properties of the downward search loops
\* ---------------------------------------------------------------------------

\* C24: the hard-drop loop and the ghost loop run at most HEIGHT iterations
\* on every board and piece.  The ghost ends steps rows below oy, never
\* above it.  A loop started where the piece does not collide ends where it
\* does not collide and where one row further down it would; the row it ends
\* in is the one the game's hard drop and ghost take (DropFrom).
C24_DropLoopsStopAboveCollision ==
    /\ steps <= HEIGHT
    /\ tpc = "dropped" =>
           /\ oy = DropFrom(board, shape, ox, oy - steps)
           /\ FitsAtRow(oy - steps) => FitsAtRow(oy) /\ ~FitsAtRow(oy + 1)
    /\ tpc \in {"ghost", "ghosted"} => ghost_y = oy + steps
    /\ tpc = "ghosted" =>
           /\ ghost_y = DropFrom(board, shape, ox, oy)
           /\ FitsAtRow(oy) => FitsAtRow(ghost_y) /\ ~FitsAtRow(ghost_y + 1)

\* A hard drop from a free position that ran two iterations or more and came
\* to rest on occupied cells, above the floor.
C24_Witness ==
    /\ tpc = "dropped"
    /\ steps >= 2
    /\ FitsAtRow(oy - steps)
    /\ FitsAtRow(oy)
    /\ oy + Len(shape) < HEIGHT

\* ---------------------------------------------------------------------------
\* Properties of screen.py's WebSocket session
\* ---------------------------------------------------------------------------

IsSend(e) == e.op \in {"send", "send_raised"}

\* The handles ws_connect has returned that were not closed.
OpenHandles == (1..opened) \ closed

\* C25: at most one connection handle is held at a time (the handles opened
\* and not closed are the one in _ws, or none), and it is reused: after a
\* send that succeeded the next thing done is a send on the same handle, and
\* ws_connect is called only first or after an HTTP POST.  When a send
\* raises, the handle is closed and _ws is None before the POST of the
\* fallback is made; the call after it begins with ws_connect, which returns
\* a handle never seen before or raises; and nothing is done on the failed
\* handle ever again.
C25_FailedHandleClosedAndNotReused ==
    /\ OpenHandles = IF ws = 0 THEN {} ELSE {ws}
    /\ ws # 0 => ws_log # <<>> /\ ws_log[Len(ws_log)] = Ev("send", ws)
    /\ \A i \in 1..Len(ws_log) :
           LET e == ws_log[i]
           IN  /\ e.op = "connect" => i = 1 \/ ws_log[i - 1].op = "post"
               /\ e.op = "connect" /\ e.handle # 0 =>
                      \A j \in 1..(i - 1) : ws_log[j].handle < e.handle
               /\ i > 1 /\ ws_log[i - 1].op = "send" =>
                      IsSend(e) /\ e.handle = ws_log[i - 1].handle
               /\ i > 1 /\ ws_log[i - 1].op = "post" /\ has_ws_connect =>
                      e.op = "connect"
               /\ e.op = "send_raised" =>
                      /\ Len(ws_log) >= i + 2
                      /\ ws_log[i + 1] = Ev("close", e.handle)
                      /\ ws_log[i + 2] = Ev("post", 0)
                      /\ e.handle \in closed
                      /\ \A j \in (i + 2)..Len(ws_log) :
                             ws_log[j].handle # e.handle
               /\ e.op = "post" => e.handle = 0

\* A handle was used for two sends in a row, the second raised, and the call
\* after the fallback opened a second connection and sent on it.
C25_Witness ==
    /\ Len(ws_log) >= 8
    /\ \E i \in 1..(Len(ws_log) - 5) :
           /\ ws_log[i] = Ev("send", 1)
           /\ ws_log[i + 1] = Ev("send_raised", 1)
           /\ ws_log[i + 2] = Ev("close", 1)
           /\ ws_log[i + 3] = Ev("post", 0)
           /\ ws_log[i + 4] = Ev("connect", 2)
           /\ ws_log[i + 5] = Ev("send", 2)
    /\ ws = 2
    /\ closed = {1}
====
